---- MODULE Spec2Model ----
(***************************************************************************)
(* A model of the pets CRUD application of topic-05-orm-peewee:            *)
(*   database.py  the data-access layer (three Peewee models over SQLite)  *)
(*   app.py       the Flask request handlers that call it                  *)
(*                                                                         *)
(* The state is the content of the three tables, the state of the Peewee   *)
(* connection of every thread, the number of rows the latest statement     *)
(* changed, and the response of the latest request.                        *)
(* Every request handler is one action.  The data-access functions are     *)
(* operators that map the tables and their arguments to an outcome (the    *)
(* exception raised, if any, and the table after the call); the handlers   *)
(* apply them and turn the outcome into a response as app.py does.         *)
(***************************************************************************)
EXTENDS Integers, Sequences, FiniteSets

VARIABLES
    kinds,      \* table Kind : id -> [name, food, sound]
    owners,     \* table Owner: id -> [name, address]
    pets,       \* table Pet  : id -> [name, age, kind, owner]
    conn,       \* the Peewee connection state of every thread
    rowcount,   \* the rows the latest INSERT, UPDATE or DELETE changed
    response    \* the response of the latest request

vars == <<kinds, owners, pets, conn, rowcount, response>>

----------------------------------------------------------------------------
(* Bounds of the model *)

\* the largest row id each table hands out; a request may name every id
\* up to the one after it, which is the id of no row
MaxKindId == 1
MaxOwnerId == 1
MaxPetId == 2

\* the longest text typed into the age field of the pet forms
MaxAgeLen == 2

----------------------------------------------------------------------------
(* Threads and connections *)

\* app.py initializes the database while it is imported, on this thread
MainThread == "main"

\* the threads a request may be handled on: the importing thread (a
\* single-threaded WSGI worker) or another one (app.run serves every request
\* on a thread of its own)
Threads == {"main", "worker"}

\* SQLite opens every connection with foreign-key enforcement off
SqliteDefaultForeignKeys == "fk_off"

\* SqliteDatabase(database_file, check_same_thread=False): no pragmas are
\* given to the database object, so a connection Peewee opens by itself
\* keeps SQLite's defaults
ConnectPragmas == SqliteDefaultForeignKeys

\* Peewee keeps the connection in thread-local state (thread_safe=True is
\* the default) and connects on demand (autoconnect=True is the default):
\* a thread without an open connection gets a new one before its query runs
Autoconnect(t) ==
    IF conn[t] = "closed" THEN [conn EXCEPT ![t] = ConnectPragmas] ELSE conn

\* whether the connection a query of thread t runs on enforces foreign keys
Enforced(t) == Autoconnect(t)[t] = "fk_on"

----------------------------------------------------------------------------
(* Python's int() on the text of a form field *)

Digits == {"0", "1", "2", "3", "4", "5", "6", "7", "8", "9"}

DigitVal(c) ==
    CASE c = "0" -> 0 [] c = "1" -> 1 [] c = "2" -> 2 [] c = "3" -> 3
      [] c = "4" -> 4 [] c = "5" -> 5 [] c = "6" -> 6 [] c = "7" -> 7
      [] c = "8" -> 8 [] c = "9" -> 9

RECURSIVE StripLeft(_)
StripLeft(s) == IF s # <<>> /\ Head(s) = " " THEN StripLeft(Tail(s)) ELSE s

RECURSIVE StripRight(_)
StripRight(s) ==
    IF s # <<>> /\ s[Len(s)] = " " THEN StripRight(SubSeq(s, 1, Len(s) - 1)) ELSE s

RECURSIVE DigitsValue(_)
DigitsValue(s) ==
    IF s = <<>> THEN 0
    ELSE 10 * DigitsValue(SubSeq(s, 1, Len(s) - 1)) + DigitVal(s[Len(s)])

AllDigits(s) == s # <<>> /\ \A i \in 1..Len(s) : s[i] \in Digits

\* int(text): surrounding blanks are dropped, one sign may lead, and what is
\* left must be decimal digits; anything else raises ValueError
PyInt(text) ==
    LET s == StripRight(StripLeft(text))
        signed == s # <<>> /\ Head(s) \in {"-", "+"}
        body == IF signed THEN Tail(s) ELSE s
    IN  IF AllDigits(body)
        THEN [ok |-> TRUE,
              value |-> IF signed /\ Head(s) = "-" THEN 0 - DigitsValue(body)
                        ELSE DigitsValue(body)]
        ELSE [ok |-> FALSE, value |-> 0]

\* CoerceAge as it would be with a test of the text in place of the try:
\* int(text) if text.isdigit() else 0
CoerceAgeIfIsDigit(data) ==
    IF "age" \notin DOMAIN data THEN 0
    ELSE IF AllDigits(data["age"]) THEN DigitsValue(data["age"])
    ELSE 0

\* try: data["age"] = int(data["age"])  except Exception: data["age"] = 0
\* (a form without an age field raises KeyError, caught the same way)
CoerceAge(data) ==
    IF "age" \notin DOMAIN data THEN 0
    ELSE IF PyInt(data["age"]).ok THEN PyInt(data["age"]).value
    ELSE 0

----------------------------------------------------------------------------
(* Tables *)

EmptyTable == [i \in {} |-> 0]

Max(S) == CHOOSE m \in S : \A x \in S : x <= m

\* AutoField is INTEGER PRIMARY KEY: SQLite gives a new row the largest id
\* in the table plus one
NextRowId(table) == IF DOMAIN table = {} THEN 1 ELSE Max(DOMAIN table) + 1

Insert(table, row) ==
    [i \in DOMAIN table \cup {NextRowId(table)} |->
        IF i \in DOMAIN table THEN table[i] ELSE row]

\* UpdateWhereId as it would be if the row were saved under its id whether
\* or not the table holds it (INSERT OR REPLACE)
InsertOrReplace(table, id, row) ==
    [i \in DOMAIN table \cup {id} |-> IF i = id THEN row ELSE table[i]]

\* UPDATE ... WHERE id = ?: a statement that matches no row changes nothing
UpdateWhereId(table, id, row) ==
    [i \in DOMAIN table |-> IF i = id THEN row ELSE table[i]]

\* DeleteWhereId as it would be without its WHERE clause
DeleteEveryRow(table, id) == EmptyTable

\* DELETE ... WHERE id = ?
DeleteWhereId(table, id) == [i \in DOMAIN table \ {id} |-> table[i]]

\* the rows a statement with WHERE id = ? matches
Matches(table, id) == IF id \in DOMAIN table THEN 1 ELSE 0

\* the outcome of a data-access call: the exception it raises ("none" when
\* it returns), the table it wrote, as the call leaves it, and the number
\* of rows its statement changed (what execute() returns)
Returned(table, rows) == [error |-> "none", table |-> table, rows |-> rows]
Raised(exc, table) == [error |-> exc, table |-> table, rows |-> 0]

----------------------------------------------------------------------------
(* database.py: the foreign keys of Pet *)

\* kind = ForeignKeyField(Kind, ...), owner = ForeignKeyField(Owner, ...):
\* what the constraints of a Pet row demand of the parent tables
ForeignKeysHold(row) == row.kind \in DOMAIN kinds /\ row.owner \in DOMAIN owners

\* on_delete="RESTRICT": a parent row that a Pet row references stays
KindReferenced(id) == \E p \in DOMAIN pets : pets[p].kind = id
OwnerReferenced(id) == \E p \in DOMAIN pets : pets[p].owner = id

----------------------------------------------------------------------------
(* database.py: the reads *)

RECURSIVE Ascending(_)
Ascending(S) ==
    IF S = {} THEN <<>>
    ELSE LET m == Max(S) IN Append(Ascending(S \ {m}), m)

\* the values the reads return: a str, a dict, a list of dicts
Str(text) == [type |-> "str", text |-> text, rows |-> <<>>]
Dict(fields) == [type |-> "dict", text |-> "", rows |-> <<fields>>]
List(rows) == [type |-> "list", text |-> "", rows |-> rows]

\* Pet.select(...).join(Kind).switch(Pet).join(Owner): two inner joins, so
\* a Pet row appears when its kind and its owner are rows of their tables
Joins(p) == pets[p].kind \in DOMAIN kinds /\ pets[p].owner \in DOMAIN owners

PetListRow(p) ==
    [id |-> p, name |-> pets[p].name, age |-> pets[p].age,
     kind_name |-> kinds[pets[p].kind].name,
     food |-> kinds[pets[p].kind].food,
     sound |-> kinds[pets[p].kind].sound,
     owner |-> owners[pets[p].owner].name]

get_pets ==
    LET ids == Ascending({p \in DOMAIN pets : Joins(p)})
    IN  [i \in 1..Len(ids) |-> PetListRow(ids[i])]

get_kinds ==
    LET ids == Ascending(DOMAIN kinds)
    IN  [i \in 1..Len(ids) |->
            [id |-> ids[i], name |-> kinds[ids[i]].name,
             food |-> kinds[ids[i]].food, sound |-> kinds[ids[i]].sound]]

get_owners ==
    LET ids == Ascending(DOMAIN owners)
    IN  [i \in 1..Len(ids) |->
            [id |-> ids[i], name |-> owners[ids[i]].name,
             address |-> owners[ids[i]].address]]

\* pet.kind and pet.owner load the parent row with a query of their own,
\* which raises DoesNotExist when no row has the stored id
get_pet(id) ==
    IF id \notin DOMAIN pets THEN [error |-> "none", value |-> Str("Data not found.")]
    ELSE IF pets[id].kind \notin DOMAIN kinds
    THEN [error |-> "KindDoesNotExist", value |-> Str("")]
    ELSE IF pets[id].owner \notin DOMAIN owners
    THEN [error |-> "OwnerDoesNotExist", value |-> Str("")]
    ELSE [error |-> "none",
          value |-> Dict([id |-> id, name |-> pets[id].name,
                          kind_id |-> pets[id].kind, age |-> pets[id].age,
                          owner_id |-> pets[id].owner])]

get_kind(id) ==
    IF id \in DOMAIN kinds
    THEN Dict([id |-> id, name |-> kinds[id].name, food |-> kinds[id].food,
               sound |-> kinds[id].sound])
    ELSE Str("Data not found.")

get_owner(id) ==
    IF id \in DOMAIN owners
    THEN Dict([id |-> id, name |-> owners[id].name, address |-> owners[id].address])
    ELSE Str("Data not found")

----------------------------------------------------------------------------
(* database.py: the writes.  fk tells whether the connection the statement *)
(* runs on enforces foreign keys.                                          *)

PetRow(data) ==
    [name |-> data["name"], age |-> CoerceAge(data),
     kind |-> data["kind_id"], owner |-> data["owner_id"]]

create_pet(data, fk) ==
    IF fk /\ ~ForeignKeysHold(PetRow(data))
    THEN Raised("IntegrityError", pets)
    ELSE Returned(Insert(pets, PetRow(data)), 1)

create_kind(data) ==
    Returned(Insert(kinds, [name |-> data["name"], food |-> data["food"],
                            sound |-> data["sound"]]), 1)

create_owner(data) ==
    Returned(Insert(owners, [name |-> data["name"], address |-> data["address"]]), 1)

update_pet(id, data, fk) ==
    IF id \in DOMAIN pets /\ fk /\ ~ForeignKeysHold(PetRow(data))
    THEN Raised("IntegrityError", pets)
    ELSE Returned(UpdateWhereId(pets, id, PetRow(data)), Matches(pets, id))

update_kind(id, data) ==
    Returned(UpdateWhereId(kinds, id, [name |-> data["name"], food |-> data["food"],
                                       sound |-> data["sound"]]),
             Matches(kinds, id))

update_owner(id, data) ==
    Returned(UpdateWhereId(owners, id, [name |-> data["name"],
                                        address |-> data["address"]]),
             Matches(owners, id))

delete_pet(id) == Returned(DeleteWhereId(pets, id), Matches(pets, id))

delete_kind(id, fk) ==
    IF id \in DOMAIN kinds /\ fk /\ KindReferenced(id)
    THEN Raised("IntegrityError", kinds)
    ELSE Returned(DeleteWhereId(kinds, id), Matches(kinds, id))

delete_owner(id, fk) ==
    IF id \in DOMAIN owners /\ fk /\ OwnerReferenced(id)
    THEN Raised("IntegrityError", owners)
    ELSE Returned(DeleteWhereId(owners, id), Matches(owners, id))

----------------------------------------------------------------------------
(* app.py: responses *)

NoData == Str("")

\* redirect(url_for(endpoint))
Redirect(endpoint) == [kind |-> "redirect", to |-> endpoint, data |-> NoData]

\* render_template(template, ...): data is the value the template shows
Render(template, data) == [kind |-> "render", to |-> template, data |-> data]

\* an exception that leaves the handler: Flask answers 500
Unhandled(exc) == [kind |-> "error500", to |-> exc, data |-> NoData]

\* before the first request
NoResponse == [kind |-> "none", to |-> "", data |-> NoData]

\* str(e) of the exceptions the data-access layer raises
ErrorText(exc) ==
    IF exc = "IntegrityError" THEN "FOREIGN KEY constraint failed" ELSE exc

----------------------------------------------------------------------------
(* app.py: the handlers.  Every handler runs on a thread t.  after_h is the *)
(* state handler h leaves, as a record of the variables; the action h takes *)
(* the application to that state.                                           *)

Now ==
    [kinds |-> kinds, owners |-> owners, pets |-> pets, conn |-> conn,
     rowcount |-> rowcount, response |-> response]

Handle(after) ==
    LET a == after
    IN  /\ kinds' = a.kinds
        /\ owners' = a.owners
        /\ pets' = a.pets
        /\ conn' = a.conn
        /\ rowcount' = a.rowcount
        /\ response' = a.response

\* a handler without try/except: the exception of the call leaves it
Propagate(outcome, endpoint) ==
    IF outcome.error # "none" THEN Unhandled(outcome.error) ELSE Redirect(endpoint)

\* Catch as it would be without the try/except
Uncaught(outcome, endpoint) ==
    IF outcome.error # "none" THEN Unhandled(outcome.error) ELSE Redirect(endpoint)

\* try: ... except Exception as e: return render_template("error.html", ...)
Catch(outcome, endpoint) ==
    IF outcome.error # "none"
    THEN Render("error.html", Str(ErrorText(outcome.error)))
    ELSE Redirect(endpoint)

after_get_list(t) ==
    [Now EXCEPT !.conn = Autoconnect(t),
                !.response = Render("pet_list.html", List(get_pets))]

get_list(t) ==
    /\ t \in Threads
    /\ Handle(after_get_list(t))

after_get_kind_list(t) ==
    [Now EXCEPT !.conn = Autoconnect(t),
                !.response = Render("kind_list.html", List(get_kinds))]

get_kind_list(t) ==
    /\ t \in Threads
    /\ Handle(after_get_kind_list(t))

after_get_owner_list(t) ==
    [Now EXCEPT !.conn = Autoconnect(t),
                !.response = Render("owner_list.html", List(get_owners))]

get_owner_list(t) ==
    /\ t \in Threads
    /\ Handle(after_get_owner_list(t))

\* the form offers the kinds and the owners
after_get_create(t) ==
    [Now EXCEPT !.conn = Autoconnect(t),
                !.response = Render("pet_create.html",
                                    List(get_kinds \o get_owners))]

get_create(t) ==
    /\ t \in Threads
    /\ Handle(after_get_create(t))

\* the form shows the pet (and offers the kinds and the owners)
after_get_update(id, t) ==
    LET call == get_pet(id)
    IN  [Now EXCEPT !.conn = Autoconnect(t),
                    !.response = IF call.error # "none"
                                 THEN Unhandled(call.error)
                                 ELSE Render("pet_update.html", call.value)]

get_update(id, t) ==
    /\ t \in Threads
    /\ Handle(after_get_update(id, t))

after_get_kind_update(id, t) ==
    [Now EXCEPT !.conn = Autoconnect(t),
                !.response = Render("kind_update.html", get_kind(id))]

get_kind_update(id, t) ==
    /\ t \in Threads
    /\ Handle(after_get_kind_update(id, t))

after_get_owner_update(id, t) ==
    [Now EXCEPT !.conn = Autoconnect(t),
                !.response = Render("owner_update.html", get_owner(id))]

get_owner_update(id, t) ==
    /\ t \in Threads
    /\ Handle(after_get_owner_update(id, t))

after_post_create(data, t) ==
    LET call == create_pet(data, Enforced(t))
    IN  [Now EXCEPT !.conn = Autoconnect(t),
                    !.pets = call.table,
                    !.rowcount = call.rows,
                    !.response = Propagate(call, "get_list")]

post_create(data, t) ==
    /\ NextRowId(pets) <= MaxPetId
    /\ Handle(after_post_create(data, t))

after_post_update(id, data, t) ==
    LET call == update_pet(id, data, Enforced(t))
    IN  [Now EXCEPT !.conn = Autoconnect(t),
                    !.pets = call.table,
                    !.rowcount = call.rows,
                    !.response = Propagate(call, "get_list")]

post_update(id, data, t) ==
    /\ t \in Threads
    /\ Handle(after_post_update(id, data, t))

after_get_delete(id, t) ==
    LET call == delete_pet(id)
    IN  [Now EXCEPT !.conn = Autoconnect(t),
                    !.pets = call.table,
                    !.rowcount = call.rows,
                    !.response = Propagate(call, "get_list")]

get_delete(id, t) ==
    /\ t \in Threads
    /\ Handle(after_get_delete(id, t))

after_post_kind_create(data, t) ==
    LET call == create_kind(data)
    IN  [Now EXCEPT !.conn = Autoconnect(t),
                    !.kinds = call.table,
                    !.rowcount = call.rows,
                    !.response = Propagate(call, "get_kind_list")]

post_kind_create(data, t) ==
    /\ NextRowId(kinds) <= MaxKindId
    /\ Handle(after_post_kind_create(data, t))

after_post_kind_update(id, data, t) ==
    LET call == update_kind(id, data)
    IN  [Now EXCEPT !.conn = Autoconnect(t),
                    !.kinds = call.table,
                    !.rowcount = call.rows,
                    !.response = Propagate(call, "get_kind_list")]

post_kind_update(id, data, t) ==
    /\ t \in Threads
    /\ Handle(after_post_kind_update(id, data, t))

after_get_kind_delete(id, t) ==
    LET call == delete_kind(id, Enforced(t))
    IN  [Now EXCEPT !.conn = Autoconnect(t),
                    !.kinds = call.table,
                    !.rowcount = call.rows,
                    !.response = Catch(call, "get_kind_list")]

get_kind_delete(id, t) ==
    /\ t \in Threads
    /\ Handle(after_get_kind_delete(id, t))

after_post_owner_create(data, t) ==
    LET call == create_owner(data)
    IN  [Now EXCEPT !.conn = Autoconnect(t),
                    !.owners = call.table,
                    !.rowcount = call.rows,
                    !.response = Propagate(call, "get_owner_list")]

post_owner_create(data, t) ==
    /\ NextRowId(owners) <= MaxOwnerId
    /\ Handle(after_post_owner_create(data, t))

after_post_owner_update(id, data, t) ==
    LET call == update_owner(id, data)
    IN  [Now EXCEPT !.conn = Autoconnect(t),
                    !.owners = call.table,
                    !.rowcount = call.rows,
                    !.response = Propagate(call, "get_owner_list")]

post_owner_update(id, data, t) ==
    /\ t \in Threads
    /\ Handle(after_post_owner_update(id, data, t))

after_get_owner_delete(id, t) ==
    LET call == delete_owner(id, Enforced(t))
    IN  [Now EXCEPT !.conn = Autoconnect(t),
                    !.owners = call.table,
                    !.rowcount = call.rows,
                    !.response = Catch(call, "get_owner_list")]

get_owner_delete(id, t) ==
    /\ t \in Threads
    /\ Handle(after_get_owner_delete(id, t))

----------------------------------------------------------------------------
(* The requests a client sends *)

\* the ids a request names: every id a table can hold and one it cannot
KindIds == 1..(MaxKindId + 1)
OwnerIds == 1..(MaxOwnerId + 1)
PetIds == 1..(MaxPetId + 1)

\* the rows setup_test_database inserts
KindForms ==
    {[name |-> "dog", food |-> "dogfood", sound |-> "bark"],
     [name |-> "cat", food |-> "catfood", sound |-> "meow"]}

OwnerForms ==
    {[name |-> "Greg", address |-> "1365 Maple Ave."],
     [name |-> "David", address |-> "13 Elm St."]}

PetForm(name, age, kind_id, owner_id) ==
    [name |-> name, age |-> age, kind_id |-> kind_id, owner_id |-> owner_id]

\* a pet form submitted without its age field
WithoutAge(form) == [f \in DOMAIN form \ {"age"} |-> form[f]]

\* the pet forms of the application at large: every kind with the first
\* owner, and under another name and without an age every other owner with
\* the first kind
PetForms ==
    {PetForm("dorothy", <<"9">>, k, 1) : k \in KindIds}
    \cup {WithoutAge(PetForm("heidi", <<>>, 1, o)) : o \in OwnerIds \ {1}}

\* the texts typed into the age field: every text of a digit, a sign and
\* a blank up to the longest, and two that hold a letter
AgeChars == {"9", "-", " "}

RECURSIVE TextsOfLen(_)
TextsOfLen(n) ==
    IF n = 0 THEN {<<>>}
    ELSE {Append(s, c) : s \in TextsOfLen(n - 1), c \in AgeChars}

AgeTexts == UNION {TextsOfLen(n) : n \in 0..MaxAgeLen} \cup {<<"x">>, <<"9", "x">>}

\* the pet forms that differ in their age field alone
AgeForms ==
    {PetForm("dorothy", a, 1, 1) : a \in AgeTexts}
    \cup {WithoutAge(PetForm("dorothy", <<>>, 1, 1))}

----------------------------------------------------------------------------
(* The application *)

\* database.initialize("pets.db") while app.py is imported: the importing
\* thread connects, turns foreign keys on for its connection and creates
\* the tables
Init ==
    /\ kinds = EmptyTable
    /\ owners = EmptyTable
    /\ pets = EmptyTable
    /\ conn = [t \in Threads |-> IF t = MainThread THEN "fk_on" ELSE "closed"]
    /\ rowcount = 0
    /\ response = NoResponse

\* the requests that read
Reads(t) ==
    \/ get_list(t)
    \/ get_kind_list(t)
    \/ get_owner_list(t)
    \/ get_create(t)
    \/ \E id \in PetIds : get_update(id, t)
    \/ \E id \in KindIds : get_kind_update(id, t)
    \/ \E id \in OwnerIds : get_owner_update(id, t)

\* the requests that write kinds and owners, and delete pets
Writes(t) ==
    \/ \E id \in PetIds : get_delete(id, t)
    \/ \E data \in KindForms : post_kind_create(data, t)
    \/ \E id \in KindIds, data \in KindForms : post_kind_update(id, data, t)
    \/ \E id \in KindIds : get_kind_delete(id, t)
    \/ \E data \in OwnerForms : post_owner_create(data, t)
    \/ \E id \in OwnerIds, data \in OwnerForms : post_owner_update(id, data, t)
    \/ \E id \in OwnerIds : get_owner_delete(id, t)

\* the requests that submit a pet form out of the set forms
PetWrites(forms, t) ==
    \/ \E data \in forms : post_create(data, t)
    \/ \E id \in PetIds, data \in forms : post_update(id, data, t)

\* every request, on every thread
Next == \E t \in Threads : Reads(t) \/ Writes(t) \/ PetWrites(PetForms, t)

Spec == Init /\ [][Next]_vars

\* every request on the importing thread, as a server with a single thread
\* handles them
MainNext ==
    Reads(MainThread) \/ Writes(MainThread) \/ PetWrites(PetForms, MainThread)

MainSpec == Init /\ [][MainNext]_vars

\* the writing requests alone: the reads change no table, so the tables
\* and connections reached are those of Spec
WriteNext == \E t \in Threads : Writes(t) \/ PetWrites(PetForms, t)

WriteSpec == Init /\ [][WriteNext]_vars

\* the first kind and the first owner, and pet forms of every age text
AgeNext ==
    \E t \in Threads :
        \/ post_kind_create([name |-> "dog", food |-> "dogfood", sound |-> "bark"], t)
        \/ post_owner_create([name |-> "Greg", address |-> "1365 Maple Ave."], t)
        \/ PetWrites(AgeForms, t)

AgeSpec == Init /\ [][AgeNext]_vars

----------------------------------------------------------------------------
(* Properties *)

TablesUnchanged == UNCHANGED <<kinds, owners, pets>>

\* C1: in every reachable state every Pet row has a kind that is the id of
\* a Kind row and an owner that is the id of an Owner row.
C1_PetsReferenceExistingRows ==
    \A p \in DOMAIN pets :
        pets[p].kind \in DOMAIN kinds /\ pets[p].owner \in DOMAIN owners

\* C2: deleting a Kind row or an Owner row that some Pet references fails
\* with an error (the delete handler shows the error view) and leaves the
\* three tables as they were.
C2_DeleteOfReferencedFails ==
    [][/\ \A id \in DOMAIN kinds, t \in Threads :
            get_kind_delete(id, t) /\ KindReferenced(id)
                => response'.to = "error.html" /\ TablesUnchanged
       /\ \A id \in DOMAIN owners, t \in Threads :
            get_owner_delete(id, t) /\ OwnerReferenced(id)
                => response'.to = "error.html" /\ TablesUnchanged]_vars

\* C3: in every reachable state get_pets returns one row per Pet row, and
\* the row of a pet carries its id, name and age, the name, food and sound
\* of its Kind and the name of its Owner.
C3_GetPetsListsEveryPet ==
    /\ Len(get_pets) = Cardinality(DOMAIN pets)
    /\ \A p \in DOMAIN pets :
          /\ pets[p].kind \in DOMAIN kinds
          /\ pets[p].owner \in DOMAIN owners
          /\ Cardinality({i \in 1..Len(get_pets) : get_pets[i].id = p}) = 1
          /\ \E i \in 1..Len(get_pets) :
                get_pets[i] =
                    [id |-> p, name |-> pets[p].name, age |-> pets[p].age,
                     kind_name |-> kinds[pets[p].kind].name,
                     food |-> kinds[pets[p].kind].food,
                     sound |-> kinds[pets[p].kind].sound,
                     owner |-> owners[pets[p].owner].name]

\* The integer a text of the age field writes down, told from the other
\* side: the texts that write an integer n are the numeral of its magnitude,
\* with zeros before it at will, after a "-" when n is negative and after
\* nothing or a "+" otherwise, all between blanks.
DigitChars == <<"0", "1", "2", "3", "4", "5", "6", "7", "8", "9">>

RECURSIVE Numeral(_)
Numeral(n) ==
    IF n < 10 THEN <<DigitChars[n + 1]>>
    ELSE Append(Numeral(n \div 10), DigitChars[(n % 10) + 1])

Repeat(c, k) == [i \in 1..k |-> c]

TextsWriting(n) ==
    LET m == IF n < 0 THEN 0 - n ELSE n
        signs == IF n < 0 THEN {<<"-">>}
                 ELSE IF n = 0 THEN {<<>>, <<"+">>, <<"-">>}
                 ELSE {<<>>, <<"+">>}
        room == MaxAgeLen - Len(Numeral(m))
    IN  {Repeat(" ", l) \o sign \o Repeat("0", z) \o Numeral(m) \o Repeat(" ", r) :
            l \in 0..room, sign \in signs, z \in 0..room, r \in 0..room}

\* the integers whose numeral fits the age field
WrittenAges ==
    {n \in (1 - 10 ^ MaxAgeLen)..(10 ^ MaxAgeLen - 1) :
        TextsWriting(n) \cap AgeTexts # {}}

ExpectedAge ==
    [a \in AgeTexts |->
        IF \E n \in WrittenAges : a \in TextsWriting(n)
        THEN CHOOSE n \in WrittenAges : a \in TextsWriting(n)
        ELSE 0]

ExpectedAgeOf(data) == IF "age" \in DOMAIN data THEN ExpectedAge[data["age"]] ELSE 0

\* C4: in every reachable state and on every thread, a create_pet or an
\* update_pet of an existing pet that returns has stored, for every pet
\* form, the integer its age field writes down, and 0 when the field is
\* missing or writes down no integer; and every stored age is an integer.
C4_AgeIsParsedOrZero ==
    /\ \A p \in DOMAIN pets : pets[p].age \in Int
    /\ \A data \in AgeForms, t \in Threads :
          /\ LET after == after_post_create(data, t)
             IN  after.response.kind = "redirect"
                    => after.pets[NextRowId(pets)].age = ExpectedAgeOf(data)
          /\ \A id \in DOMAIN pets :
                LET after == after_post_update(id, data, t)
                IN  after.response.kind = "redirect"
                        => after.pets[id].age = ExpectedAgeOf(data)

\* C4 witness: pets were stored from an age text that writes down no
\* integer and from one that writes down a negative integer.
C4_Witness ==
    /\ rowcount = 1
    /\ \E p \in DOMAIN pets : pets[p].age = 0
    /\ \E p \in DOMAIN pets : pets[p].age < 0

\* the error view of error.html with a text
ErrorView(text) == [kind |-> "render", to |-> "error.html", data |-> Str(text)]

\* C5: in every reachable state, a delete request for a Kind or an Owner,
\* for every id and on every thread, does not end in an unhandled error:
\* when delete_kind or delete_owner raises, the response is the error view
\* with the text of the error, and when it returns, the response is a
\* redirect to the kind list or the owner list.
C5_DeleteHandlersCatch ==
    \A t \in Threads :
        /\ \A id \in KindIds :
              LET after == after_get_kind_delete(id, t)
              IN  /\ after.response.kind # "error500"
                  /\ after.response =
                        IF delete_kind(id, Enforced(t)).error # "none"
                        THEN ErrorView("FOREIGN KEY constraint failed")
                        ELSE Redirect("get_kind_list")
        /\ \A id \in OwnerIds :
              LET after == after_get_owner_delete(id, t)
              IN  /\ after.response.kind # "error500"
                  /\ after.response =
                        IF delete_owner(id, Enforced(t)).error # "none"
                        THEN ErrorView("FOREIGN KEY constraint failed")
                        ELSE Redirect("get_owner_list")

\* C5 witness: a delete was refused and answered with the error view, while
\* the referenced rows are still there.
C5_Witness ==
    /\ response.kind = "render"
    /\ response.to = "error.html"
    /\ response.data.text = "FOREIGN KEY constraint failed"
    /\ \E p \in DOMAIN pets : pets[p].kind \in DOMAIN kinds

\* C6: for every id, get_pet, get_kind and get_owner return the fields of
\* the row with that id when there is one, and otherwise their 'not found'
\* text, never an error (so the update form is rendered with that value);
\* and none of them changes a table.
C6_GetOneReturnsRowOrSentinel ==
    [][\A t \in Threads :
          /\ \A id \in PetIds :
                get_update(id, t) =>
                    /\ TablesUnchanged
                    /\ response'.kind = "render"
                    /\ response'.data =
                          IF id \in DOMAIN pets
                          THEN Dict([id |-> id, name |-> pets[id].name,
                                     kind_id |-> pets[id].kind,
                                     age |-> pets[id].age,
                                     owner_id |-> pets[id].owner])
                          ELSE Str("Data not found.")
          /\ \A id \in KindIds :
                get_kind_update(id, t) =>
                    /\ TablesUnchanged
                    /\ response'.kind = "render"
                    /\ response'.data =
                          IF id \in DOMAIN kinds
                          THEN Dict([id |-> id, name |-> kinds[id].name,
                                     food |-> kinds[id].food,
                                     sound |-> kinds[id].sound])
                          ELSE Str("Data not found.")
          /\ \A id \in OwnerIds :
                get_owner_update(id, t) =>
                    /\ TablesUnchanged
                    /\ response'.kind = "render"
                    /\ response'.data =
                          IF id \in DOMAIN owners
                          THEN Dict([id |-> id, name |-> owners[id].name,
                                     address |-> owners[id].address])
                          ELSE Str("Data not found")]_vars

\* C7: every data-access call runs on the one connection that initialize
\* opened, on which foreign keys are enforced: no thread but the importing
\* one ever holds a connection, and no connection has enforcement off.
C7_OneEnforcingConnection ==
    \A t \in Threads :
        conn[t] = IF t = MainThread THEN "fk_on" ELSE "closed"

\* C8: create_pet, and update_pet of an existing pet, with a kind_id that is
\* the id of no Kind or an owner_id that is the id of no Owner fails with an
\* error the submit handler does not catch, and leaves the three tables as
\* they were.
C8_BadReferenceFails ==
    [][\A data \in PetForms, t \in Threads :
          ~ForeignKeysHold(PetRow(data)) =>
              /\ post_create(data, t)
                    => response'.kind = "error500" /\ TablesUnchanged
              /\ \A id \in DOMAIN pets :
                    post_update(id, data, t)
                        => response'.kind = "error500" /\ TablesUnchanged]_vars

\* table after is table before without row id
RemovedOnly(id, before, after) ==
    /\ DOMAIN after = DOMAIN before \ {id}
    /\ \A q \in DOMAIN after : after[q] = before[q]

NothingBut(after, endpoint) ==
    LET a == after
    IN  /\ a.kinds = kinds
        /\ a.owners = owners
        /\ a.pets = pets
        /\ a.response = Redirect(endpoint)

\* C10: in every reachable state and on every thread, update_kind,
\* update_owner, update_pet, delete_kind, delete_owner and delete_pet with an
\* id that is the id of no row of their table raise no error and leave the
\* three tables as they were, and the handler redirects to the list.
C10_NoMatchChangesNothing ==
    \A t \in Threads :
        /\ \A id \in PetIds \ DOMAIN pets :
              /\ NothingBut(after_get_delete(id, t), "get_list")
              /\ \A data \in PetForms :
                    NothingBut(after_post_update(id, data, t), "get_list")
        /\ \A id \in KindIds \ DOMAIN kinds :
              /\ NothingBut(after_get_kind_delete(id, t), "get_kind_list")
              /\ \A data \in KindForms :
                    NothingBut(after_post_kind_update(id, data, t), "get_kind_list")
        /\ \A id \in OwnerIds \ DOMAIN owners :
              /\ NothingBut(after_get_owner_delete(id, t), "get_owner_list")
              /\ \A data \in OwnerForms :
                    NothingBut(after_post_owner_update(id, data, t), "get_owner_list")

\* C10 witness: a statement on the Pet table matched no row while the table
\* holds rows, and the handler redirected to the pet list.
C10_Witness ==
    /\ rowcount = 0
    /\ response = Redirect("get_list")
    /\ pets # EmptyTable

====
